---- MODULE Spec2Model ----
(***************************************************************************)
(* Model of the news-aggregator pipeline: GET /process-article selects an  *)
(* article from a headlines feed, summarizes it with a language model,     *)
(* converts the summary to speech (written to output.mp3) and generates a  *)
(* quiz.  The repository holds the pipeline in three behaviourally         *)
(* distinct versions:                                                      *)
(*   "api"    src/api/process-article.js (and src/unnamed/part_000)        *)
(*   "legacy" src/unnamed/part_001                                         *)
(*   "server" src/server.js                                                *)
(* Strings are modelled as sequences of tokens so that includes() and      *)
(* trim() are computed, not assumed.                                       *)
(***************************************************************************)
EXTENDS Integers, Sequences, FiniteSets, TLC

\* ------------------------------------------------------------------ bounds
MaxFeed == 2        \* longest feed response (number of articles)
RandDenom == 4      \* Math.random() is drawn from {0/4, 1/4, 2/4, 3/4}
MaxAudioLen == 2    \* longest audio payload, in bytes

Handlers == {"api", "legacy", "server"}
Runs == {"r1", "r2"}   \* two concurrent requests to one deployment

\* ------------------------------------------------------------ text helpers
WS == " "

RECURSIVE TrimLeft(_)
TrimLeft(s) == IF s # <<>> /\ Head(s) = WS THEN TrimLeft(Tail(s)) ELSE s

RECURSIVE TrimRight(_)
TrimRight(s) ==
  IF s # <<>> /\ s[Len(s)] = WS THEN TrimRight(SubSeq(s, 1, Len(s) - 1)) ELSE s

\* String.prototype.trim
Trim(s) == TrimRight(TrimLeft(s))

\* String.prototype.includes
Includes(s, sub) ==
  \E i \in 1..(Len(s) - Len(sub) + 1) : SubSeq(s, i, i + Len(sub) - 1) = sub

RECURSIVE SeqsUpTo(_, _)
SeqsUpTo(S, n) ==
  IF n = 0 THEN {<<>>}
  ELSE LET shorter == SeqsUpTo(S, n - 1)
       IN shorter \cup {Append(q, x) : q \in {p \in shorter : Len(p) = n - 1}, x \in S}

\* --------------------------------------------------------------- the feed
Domain == <<"theverge.com">>
Homepage == <<"https://", "www.", "theverge.com">>
NoUrl == <<>>       \* a missing, null or empty url (falsy in JavaScript)

SampleArticles ==
  { [url |-> Homepage, title |-> "Home", description |-> "null"],
    [url |-> Homepage \o <<"/", "a">>, title |-> "A", description |-> "About A"],
    [url |-> Homepage \o <<"/", "b">>, title |-> "B", description |-> "null"],
    [url |-> <<"https://", "evil.com", "/", "a">>, title |-> "E", description |-> "About E"],
    [url |-> <<"https://", "evil.com", "/", "?", "theverge.com">>, title |-> "Q",
     description |-> "About Q"],
    [url |-> NoUrl, title |-> "N", description |-> "null"] }

FeedBodies == {[articles |-> a] : a \in SeqsUpTo(SampleArticles, MaxFeed)}

\* What axios.get on the feed resolves or rejects with.  "nodata" is a 2xx
\* answer whose body is empty, "malformed" one whose body has no articles
\* array; "status" is a non-2xx answer; "timeout" the request timeout, which
\* only the api version sets.
\* Which calls are bounded in time: the api handler passes timeout: 8000 to
\* its three axios calls, the other versions pass none (axios then waits
\* without limit); openai.chat.completions.create is given no timeout in any
\* version, and the client then applies its default request timeout, whose
\* rejection is one of the failures of LlmResponses.
HasTimeout(h, call) ==
  \/ h = "api" /\ call \in {"feed", "page", "tts"}
  \/ call \in {"llm", "quiz"}

FeedResponses(h) ==
  {[kind |-> "ok", data |-> d] : d \in FeedBodies}
    \cup {[kind |-> "nodata", data |-> [articles |-> <<>>]],
          [kind |-> "malformed", data |-> [articles |-> <<>>]],
          [kind |-> "status", data |-> [articles |-> <<>>]]}
    \cup (IF HasTimeout(h, "feed") THEN {[kind |-> "timeout", data |-> [articles |-> <<>>]]}
          ELSE {})

Draws == 0..(RandDenom - 1)

\* ------------------------------------------------------- error messages
MsgNoArticles == "No articles found from NewsAPI."
MsgNoValid == "No valid articles found."
MsgSelect == "Failed to fetch valid article details."
MsgSummarize == "Failed to summarize article."
MsgQuiz == "Failed to generate quiz questions."
MsgTransport(kind) ==
  CASE kind = "timeout" -> "timeout of 8000ms exceeded"
    [] kind = "status" -> "Request failed with status code 500"
    [] kind = "nodata" -> "Cannot read properties of null"
    [] kind = "malformed" -> "Cannot read properties of undefined"
    [] kind = "io" -> "EACCES: permission denied, open 'output.mp3'"
    [] OTHER -> "Network Error"

\* Mutant: the message of the summarizer, copied into convertSummaryToSpeech.
MsgSpeechCopied(h) == "Failed to summarize article."

MsgSpeech(h) ==
  IF h = "server" THEN "Failed to convert summary to speech using Eleven Labs."
  ELSE "Failed to convert summary to speech."

NoArticle == [url |-> NoUrl, headline |-> "", description |-> ""]

\* ----------------------------------------------------- 4.1 article selector
\* The filter predicate of fetchArticleDetails.
IsValidArticle(article) ==
  /\ article.url # NoUrl
  /\ Includes(article.url, Domain)
  /\ article.url # Homepage

ValidArticles(articles) == SelectSeq(articles, IsValidArticle)

\* Mutant: Math.round in place of Math.floor.
RandomIndexRound(u, n) == (2 * u * n + RandDenom) \div (2 * RandDenom)

\* Math.floor(Math.random() * n), with Math.random() = u / RandDenom.
RandomIndex(u, n) == (u * n) \div RandDenom

\* Only server.js and part_001 test the feed for emptiness before filtering.
HasEmptyCheck(h) == h \in {"server", "legacy"}

\* The error raised inside the try block of fetchArticleDetails ("" if none).
SelectInnerError(h, resp) ==
  IF resp.kind \in {"status", "timeout", "malformed"} THEN MsgTransport(resp.kind)
  ELSE IF resp.kind = "nodata"
    THEN (IF HasEmptyCheck(h) THEN MsgNoArticles ELSE MsgTransport("nodata"))
  ELSE IF HasEmptyCheck(h) /\ Len(resp.data.articles) = 0 THEN MsgNoArticles
  ELSE IF Len(ValidArticles(resp.data.articles)) = 0 THEN MsgNoValid
  ELSE ""

\* Mutant: the catch block rethrows the error it caught.
fetchArticleDetailsRethrow(h, resp, u) ==
  LET inner == SelectInnerError(h, resp)
      failure(msg) ==
        [ok |-> FALSE, value |-> NoArticle, logged |-> msg, error |-> msg]
  IN
  IF inner # "" THEN failure(inner)
  ELSE LET valid == ValidArticles(resp.data.articles)
           randomIndex == RandomIndex(u, Len(valid))
       IN IF randomIndex + 1 \notin DOMAIN valid
            THEN failure(MsgTransport("malformed"))
            ELSE LET article == valid[randomIndex + 1]
                 IN [ok |-> TRUE,
                     value |-> [url |-> article.url, headline |-> article.title,
                                description |-> article.description],
                     logged |-> "", error |-> ""]

\* fetchArticleDetails: the value returned, or the error that leaves the
\* function (the catch block replaces whatever was raised inside the try).
\* logged is what the catch block writes with console.error.
fetchArticleDetails(h, resp, u) ==
  LET inner == SelectInnerError(h, resp)
      failure(msg) ==
        [ok |-> FALSE, value |-> NoArticle, logged |-> msg, error |-> MsgSelect]
  IN
  IF inner # "" THEN failure(inner)
  ELSE LET valid == ValidArticles(resp.data.articles)
           randomIndex == RandomIndex(u, Len(valid))
       IN IF randomIndex + 1 \notin DOMAIN valid
            THEN failure(MsgTransport("malformed"))   \* article is undefined
            ELSE LET article == valid[randomIndex + 1]
                 IN [ok |-> TRUE,
                     value |-> [url |-> article.url, headline |-> article.title,
                                description |-> article.description],
                     logged |-> "", error |-> ""]

\* Everything fetchArticleDetails can return or throw, over all feed answers
\* and all random draws.
\* What the selector depends on besides the code: the answer of the feed and
\* the value of Math.random().
AllFeedInputs == {[resp |-> resp, u |-> u] : resp \in FeedResponses("api"), u \in Draws}

\* What each version makes of an input ("none": the version never sees it,
\* a timeout where none is set).
FeedOutcomeOf(x) ==
  [h \in Handlers |->
     IF x.resp \in FeedResponses(h)
       THEN fetchArticleDetails(h, x.resp, x.u)
       ELSE [ok |-> FALSE, value |-> NoArticle, logged |-> "none", error |-> "none"]]

\* One input for each distinct outcome: inputs on which every version does
\* the same need not be told apart by the pipeline.
FeedInputs ==
  {CHOOSE x \in AllFeedInputs : FeedOutcomeOf(x) = o :
     o \in {FeedOutcomeOf(x) : x \in AllFeedInputs}}

\* --------------------------------------------------------- 4.2 summarizer
\* An article page is a sequence of elements; $('p').text() concatenates the
\* text of the paragraph elements.
Pages ==
  { <<[tag |-> "div", text |-> <<"menu">>]>>,
    <<[tag |-> "p", text |-> <<WS, "body">>], [tag |-> "div", text |-> <<"ad">>],
      [tag |-> "p", text |-> <<"more", WS>>]>> }

RECURSIVE ParagraphText(_)
ParagraphText(page) ==
  IF page = <<>> THEN <<>>
  ELSE (IF Head(page).tag = "p" THEN Head(page).text ELSE <<>>)
         \o ParagraphText(Tail(page))

\* const articleText = $('p').text().trim()
ArticleText(page) == Trim(ParagraphText(page))

\* Mutant: a page without paragraph text is rejected before the model is
\* called.
PageResponsesRejectEmpty(h) ==
  {[kind |-> IF ArticleText(p) = <<>> THEN "empty" ELSE "ok", page |-> p] : p \in Pages}
    \cup {[kind |-> "status", page |-> <<>>]}
    \cup (IF HasTimeout(h, "page") THEN {[kind |-> "timeout", page |-> <<>>]} ELSE {})

PageResponses(h) ==
  {[kind |-> "ok", page |-> p] : p \in Pages}
    \cup {[kind |-> "status", page |-> <<>>]}
    \cup (IF HasTimeout(h, "page") THEN {[kind |-> "timeout", page |-> <<>>]} ELSE {})

\* What openai.chat.completions.create resolves or rejects with: "ok" has
\* choices[0].message.content, "malformed" has no first choice.
SummaryContents == {<<>>, <<WS>>, <<"s1">>, <<WS, "s2", WS>>}
QuizContents == {<<"q1">>, <<WS, "q2", WS>>}

LlmResponses(contents) ==
  {[kind |-> "ok", content |-> c] : c \in contents}
    \cup {[kind |-> "status", content |-> <<>>], [kind |-> "malformed", content |-> <<>>]}

\* response.choices[0].message.content.trim(), for both model calls
CompletionText(resp) == Trim(resp.content)

\* -------------------------------------------------- 4.3 speech synthesizer
\* The audio the provider returns for a text: n bytes, each marked with the
\* text it was synthesized from.
Audio(text, n) == [i \in 1..n |-> text]

\* Mutant: validateStatus accepts every status, so an error body is taken
\* for audio.
TtsResponsesAnyStatus(h, text) ==
  {[kind |-> "ok", data |-> Audio(text, n)] : n \in 1..MaxAudioLen}
    \cup {[kind |-> "ok", data |-> <<<<"error">>>>]}

TtsResponses(h, text) ==
  {[kind |-> "ok", data |-> Audio(text, n)] : n \in 1..MaxAudioLen}
    \cup {[kind |-> "status", data |-> <<>>]}
    \cup (IF HasTimeout(h, "tts") THEN {[kind |-> "timeout", data |-> <<>>]} ELSE {})

OutputPath == "output.mp3"

\* Mutant: the file is opened without truncation (flag 'r+').
TruncateKeep(old) == old

\* fs.writeFile(path, data) is fs.open(path, 'w'), fs.write(fd, data) and
\* fs.close(fd), each a separate asynchronous operation.  Opening with flag
\* 'w' truncates the file.
Truncate(old) == <<>>

\* fs.write at offset 0 of a freshly opened descriptor: data replaces the
\* first Len(data) bytes of the file and leaves what lies beyond them.
\* Mutant: the file is opened for appending (flag 'a').
WriteAppend(old, data) == old \o data

WriteAt0(old, data) ==
  data \o (IF Len(old) > Len(data) THEN SubSeq(old, Len(data) + 1, Len(old)) ELSE <<>>)

\* ------------------------------------------------------ 4.5 orchestrator
Stages == <<"select", "summarize", "synthesize", "quiz">>

StageOf(call) ==
  CASE call = "feed" -> 1
    [] call \in {"page", "llm"} -> 2
    [] call \in {"tts", "open", "write"} -> 3
    [] call = "quiz" -> 4

\* Mutant: the audio reference is left out of the result.
SuccessResponseNoAudio(details, sum, path, quiz) ==
  [status |-> 200, format |-> "json",
   body |-> [articleUrl |-> details.url, headline |-> details.headline,
             description |-> details.description, summary |-> sum,
             quizQuestions |-> quiz]]

\* res.json({ articleUrl, headline, description, summary, audioFile, quizQuestions })
SuccessResponse(details, sum, path, quiz) ==
  [status |-> 200, format |-> "json",
   body |-> [articleUrl |-> details.url, headline |-> details.headline,
             description |-> details.description, summary |-> sum,
             audioFile |-> path, quizQuestions |-> quiz]]

\* Mutant: the catch block also returns the audio reference.
ErrorResponsePartial(h, msg) ==
  IF h = "server"
    THEN [status |-> 500, format |-> "text", body |-> [text |-> msg, audioFile |-> "output.mp3"]]
    ELSE [status |-> 500, format |-> "json",
          body |-> [error |-> msg, audioFile |-> "output.mp3"]]

\* Mutant: res.send(error.message) without status(500) in src/server.js.
ErrorResponseNoStatus(h, msg) ==
  IF h = "server"
    THEN [status |-> 200, format |-> "text", body |-> [text |-> msg]]
    ELSE [status |-> 500, format |-> "json", body |-> [error |-> msg]]

\* Mutant: the catch block answers with a fixed text instead of error.message.
ErrorResponseGeneric(h, msg) ==
  IF h = "server"
    THEN [status |-> 500, format |-> "text", body |-> [text |-> "Internal Server Error"]]
    ELSE [status |-> 500, format |-> "json", body |-> [error |-> "Internal Server Error"]]

\* The handler's catch block: res.status(500).json({ error: error.message }),
\* and in server.js res.status(500).send(error.message).
ErrorResponse(h, msg) ==
  IF h = "server" THEN [status |-> 500, format |-> "text", body |-> [text |-> msg]]
  ELSE [status |-> 500, format |-> "json", body |-> [error |-> msg]]

NoResponse == [status |-> 0, format |-> "", body |-> [none |-> ""]]

\* The message a 500 response carries.
ErrorMessage(resp) ==
  IF resp.format = "text" THEN resp.body.text
  ELSE IF "error" \in DOMAIN resp.body THEN resp.body.error ELSE ""

\* Mutant: speech and quiz are started together (Promise.all).
CallsOnSummaryParallel == {"tts", "quiz"}

\* The calls the handler issues once summarizeArticle has returned: it awaits
\* convertSummaryToSpeech before it calls generateQuizQuestions.
CallsOnSummary == {"tts"}

NoAudio == <<>>
NoOp == [by |-> "", op |-> "", data |-> <<>>, overlapped |-> FALSE]

VARIABLES
  handler,         \* which version of the pipeline the deployment runs
  inflight,        \* the asynchronous operations awaited: <<run, call>>
  calls,           \* per run, the calls issued so far
  completed,       \* per run, the stages that returned a value
  failed,          \* per run, the stage that threw ("" if none)
  articleDetails, articleText, summary, audio, audioFile, quizQuestions,  \* locals
  response,        \* per run, the response sent
  logged,          \* per run, the message console.error printed in the stage
  file,            \* the content of output.mp3
  lastOp,          \* the last operation that changed the file
  selFeed, selDraw, selResult, selDone,  \* the selector on its own
  peer,            \* the version that serves run r2: the deployment of r1
                   \* (peer = handler) or a second one, run side by side
  mock             \* the answers fixed by stubbed providers, per call (no
                   \* entries when the providers are live)

runVars == <<calls, completed, failed, articleDetails, articleText, summary, audio, audioFile,
             quizQuestions, response, logged>>
pipeVars == <<handler, inflight, runVars, file, lastOp>>
selVars == <<selFeed, selDraw, selResult, selDone>>
envVars == <<peer, mock>>
vars == <<pipeVars, selVars, envVars>>

InitialFile == <<"old">>      \* output.mp3 as an earlier request left it

PipeInit ==
  /\ inflight = {}
  /\ calls = [r \in Runs |-> <<>>]
  /\ completed = [r \in Runs |-> <<>>]
  /\ failed = [r \in Runs |-> ""]
  /\ articleDetails = [r \in Runs |-> NoArticle]
  /\ articleText = [r \in Runs |-> <<>>]
  /\ summary = [r \in Runs |-> <<>>]
  /\ audio = [r \in Runs |-> NoAudio]
  /\ audioFile = [r \in Runs |-> ""]
  /\ quizQuestions = [r \in Runs |-> <<>>]
  /\ response = [r \in Runs |-> NoResponse]
  /\ logged = [r \in Runs |-> ""]
  /\ file = InitialFile
  /\ lastOp = NoOp

SelIdle ==
  /\ selFeed = [kind |-> "status", data |-> [articles |-> <<>>]]
  /\ selDraw = 0
  /\ selResult = [ok |-> FALSE, value |-> NoArticle, logged |-> "", error |-> ""]
  /\ selDone = TRUE

NoMock == <<>>

Init ==
  /\ handler \in Handlers
  /\ peer = handler
  /\ mock = NoMock
  /\ PipeInit
  /\ SelIdle

HandlerOf(r) == IF r = "r2" THEN peer ELSE handler

\* The answers a call can get: any of those the provider can give, or, once
\* a stub has fixed the answer to this call, that answer (none, if this
\* version cannot see it).
Answers(call, possible) ==
  IF call \in DOMAIN mock /\ mock[call] # <<>>
    THEN {mock[call][1]} \cap possible
    ELSE possible

\* A stub keeps the answer it gave.
Record(call, answer) ==
  mock' = IF call \in DOMAIN mock THEN [mock EXCEPT ![call] = <<answer>>] ELSE mock

\* Mutant: a blocking call, during which nothing else of the process is served.
AwaitingBlocking(r, call) == inflight = {<<r, call>>}

Awaiting(r, call) == <<r, call>> \in inflight

\* Calls are issued, in the order of their stages: they are in flight and
\* recorded.
Issue(r, done, new) ==
  /\ inflight' = (inflight \ {<<r, done>>}) \cup {<<r, c>> : c \in new}
  /\ calls' = [calls EXCEPT ![r] = @ \o
       [i \in 1..Cardinality(new) |->
          CHOOSE c \in new : Cardinality({d \in new : StageOf(d) < StageOf(c)}) = i - 1]]

\* Mutant: the catch block logs the error and sends nothing.
ThrowSilent(r, done, inner, msg) ==
  /\ inflight' = inflight \ {<<r, done>>}
  /\ failed' = [failed EXCEPT ![r] = Stages[StageOf(done)]]
  /\ logged' = [logged EXCEPT ![r] = inner]
  /\ articleDetails' = [articleDetails EXCEPT ![r] = NoArticle]
  /\ articleText' = [articleText EXCEPT ![r] = <<>>]
  /\ summary' = [summary EXCEPT ![r] = <<>>]
  /\ audio' = [audio EXCEPT ![r] = NoAudio]
  /\ audioFile' = [audioFile EXCEPT ![r] = ""]
  /\ UNCHANGED <<calls, completed, quizQuestions, response>>

\* A stage function throws: the handler's catch block answers 500 and the
\* handler returns, so its locals are gone.  (After a 200 the locals are kept,
\* as the record of what the run produced.)
Throw(r, done, inner, msg) ==
  /\ inflight' = inflight \ {<<r, done>>}
  /\ failed' = [failed EXCEPT ![r] = Stages[StageOf(done)]]
  /\ logged' = [logged EXCEPT ![r] = inner]
  /\ response' = [response EXCEPT ![r] = ErrorResponse(HandlerOf(r), msg)]
  /\ articleDetails' = [articleDetails EXCEPT ![r] = NoArticle]
  /\ articleText' = [articleText EXCEPT ![r] = <<>>]
  /\ summary' = [summary EXCEPT ![r] = <<>>]
  /\ audio' = [audio EXCEPT ![r] = NoAudio]
  /\ audioFile' = [audioFile EXCEPT ![r] = ""]
  /\ UNCHANGED <<calls, completed, quizQuestions>>

\* GET /process-article arrives: the handler calls fetchArticleDetails, which
\* issues the feed request.
Request(r) ==
  /\ calls[r] = <<>>
  /\ Issue(r, "none", {"feed"})
  /\ UNCHANGED <<handler, completed, failed, articleDetails, articleText, summary, audio,
                 audioFile, quizQuestions, response, logged, file, lastOp, selVars,
                 envVars>>

\* The feed answers: fetchArticleDetails returns or throws; on a return the
\* handler calls summarizeArticle, which requests the article page.
FeedResponds(r) ==
  /\ Awaiting(r, "feed")
  /\ \E x \in Answers("feed", {y \in FeedInputs : y.resp \in FeedResponses(HandlerOf(r))}) :
       LET res == fetchArticleDetails(HandlerOf(r), x.resp, x.u) IN
       /\ Record("feed", x)
       /\ IF res.ok
         THEN /\ articleDetails' = [articleDetails EXCEPT ![r] = res.value]
              /\ completed' = [completed EXCEPT ![r] = Append(@, "select")]
              /\ Issue(r, "feed", {"page"})
              /\ UNCHANGED <<failed, articleText, summary, audio, audioFile,
                             quizQuestions, response, logged>>
         ELSE Throw(r, "feed", res.logged, res.error)
  /\ UNCHANGED <<handler, peer, file, lastOp, selVars>>

\* The article page answers: on success the text is extracted and sent to
\* the language model as the body of the prompt.
PageResponds(r) ==
  /\ Awaiting(r, "page")
  /\ \E resp \in Answers("page", PageResponses(HandlerOf(r))) :
       /\ Record("page", resp)
       /\ IF resp.kind = "ok"
         THEN /\ articleText' = [articleText EXCEPT ![r] = ArticleText(resp.page)]
              /\ Issue(r, "page", {"llm"})
              /\ UNCHANGED <<completed, failed, articleDetails, summary, audio,
                             audioFile, quizQuestions, response, logged>>
         ELSE Throw(r, "page", MsgTransport(resp.kind), MsgSummarize)
  /\ UNCHANGED <<handler, peer, file, lastOp, selVars>>

\* The summarization call answers: summarizeArticle returns the trimmed text
\* and the handler calls convertSummaryToSpeech with it.
LlmResponds(r) ==
  /\ Awaiting(r, "llm")
  /\ \E resp \in Answers("llm", LlmResponses(SummaryContents)) :
       /\ Record("llm", resp)
       /\ IF resp.kind = "ok"
         THEN /\ summary' = [summary EXCEPT ![r] = CompletionText(resp)]
              /\ completed' = [completed EXCEPT ![r] = Append(@, "summarize")]
              /\ Issue(r, "llm", CallsOnSummary)
              /\ UNCHANGED <<failed, articleDetails, articleText, audio, audioFile,
                             quizQuestions, response, logged>>
         ELSE Throw(r, "llm", MsgTransport(resp.kind), MsgSummarize)
  /\ UNCHANGED <<handler, peer, file, lastOp, selVars>>

\* The text-to-speech call answers: on success writeFile starts by opening
\* output.mp3.
TtsResponds(r) ==
  /\ Awaiting(r, "tts")
  /\ \E resp \in Answers("tts", TtsResponses(HandlerOf(r), summary[r])) :
       /\ Record("tts", resp)
       /\ IF resp.kind = "ok"
         THEN /\ audio' = [audio EXCEPT ![r] = resp.data]
              /\ Issue(r, "tts", {"open"})
              /\ UNCHANGED <<completed, failed, articleDetails, articleText, summary,
                             audioFile, quizQuestions, response, logged>>
         ELSE Throw(r, "tts", MsgTransport(resp.kind), MsgSpeech(HandlerOf(r)))
  /\ UNCHANGED <<handler, peer, file, lastOp, selVars>>

\* fs.open(path, 'w') completes: the file is truncated and the write follows.
OpenCompletes(r) ==
  /\ Awaiting(r, "open")
  /\ \E ok \in Answers("open", BOOLEAN) :
       /\ Record("open", ok)
       /\ IF ok
         THEN /\ file' = Truncate(file)
              /\ lastOp' = [by |-> r, op |-> "open", data |-> <<>>, overlapped |-> FALSE]
              /\ Issue(r, "open", {"write"})
              /\ UNCHANGED <<completed, failed, articleDetails, articleText, summary,
                             audio, audioFile, quizQuestions, response, logged>>
         ELSE /\ Throw(r, "open", MsgTransport("io"), MsgSpeech(HandlerOf(r)))
              /\ UNCHANGED <<file, lastOp>>
  /\ UNCHANGED <<handler, peer, selVars>>

\* fs.write completes: convertSummaryToSpeech returns the path and the
\* handler calls generateQuizQuestions with the summary.
WriteCompletes(r) ==
  /\ Awaiting(r, "write")
  /\ \E ok \in Answers("write", BOOLEAN) :
       /\ Record("write", ok)
       /\ IF ok
         THEN /\ file' = WriteAt0(file, audio[r])
              /\ lastOp' = [by |-> r, op |-> "write", data |-> audio[r],
                            overlapped |-> lastOp.by # r]
              /\ audio' = [audio EXCEPT ![r] = NoAudio]
              /\ audioFile' = [audioFile EXCEPT ![r] = OutputPath]
              /\ completed' = [completed EXCEPT ![r] = Append(@, "synthesize")]
              /\ Issue(r, "write", {"quiz"})
              /\ UNCHANGED <<failed, articleDetails, articleText, summary,
                             quizQuestions, response, logged>>
         ELSE /\ Throw(r, "write", MsgTransport("io"), MsgSpeech(HandlerOf(r)))
              /\ UNCHANGED <<file, lastOp>>
  /\ UNCHANGED <<handler, peer, selVars>>

\* The quiz call answers: on success the handler sends the 200 response.
QuizResponds(r) ==
  /\ Awaiting(r, "quiz")
  /\ \E resp \in Answers("quiz", LlmResponses(QuizContents)) :
       /\ Record("quiz", resp)
       /\ IF resp.kind = "ok"
         THEN /\ quizQuestions' = [quizQuestions EXCEPT ![r] = CompletionText(resp)]
              /\ completed' = [completed EXCEPT ![r] = Append(@, "quiz")]
              /\ response' = [response EXCEPT ![r] =
                   SuccessResponse(articleDetails[r], summary[r], audioFile[r],
                                   CompletionText(resp))]
              /\ inflight' = inflight \ {<<r, "quiz">>}
              /\ UNCHANGED <<calls, failed, articleDetails, articleText, summary, audio,
                             audioFile, logged>>
         ELSE Throw(r, "quiz", MsgTransport(resp.kind), MsgQuiz)
  /\ UNCHANGED <<handler, peer, file, lastOp, selVars>>

Next ==
  \E r \in Runs :
    \/ Request(r)
    \/ FeedResponds(r)
    \/ PageResponds(r)
    \/ LlmResponds(r)
    \/ TtsResponds(r)
    \/ OpenCompletes(r)
    \/ WriteCompletes(r)
    \/ QuizResponds(r)

Spec == Init /\ [][Next]_vars

\* ------------------------------------------------------ what is bounded
\* The steps that are bound to happen once a run waits for them: a call
\* with a timeout settles, by an answer or by the timer, and the local file
\* system completes its operations.  A call without a timeout settles only
\* if the provider answers.
Bounded(r) ==
  \/ HasTimeout(HandlerOf(r), "feed") /\ FeedResponds(r)
  \/ HasTimeout(HandlerOf(r), "page") /\ PageResponds(r)
  \/ HasTimeout(HandlerOf(r), "llm") /\ LlmResponds(r)
  \/ HasTimeout(HandlerOf(r), "tts") /\ TtsResponds(r)
  \/ OpenCompletes(r)
  \/ WriteCompletes(r)
  \/ HasTimeout(HandlerOf(r), "quiz") /\ QuizResponds(r)

SpecFair == Init /\ [][Next]_vars /\ \A r \in Runs : WF_vars(Bounded(r))

\* ------------------------------------------------- stubbed providers
\* The providers are stubbed: the first answer given to a call is the answer
\* to that call in every run.  Run r2 is served by the same version as r1 or
\* by another one.
MockedCalls == {"feed", "page", "llm", "tts", "open", "write", "quiz"}

MockInit ==
  /\ handler \in Handlers
  /\ peer \in Handlers
  /\ mock = [c \in MockedCalls |-> <<>>]
  /\ PipeInit
  /\ SelIdle

SpecMock == MockInit /\ [][Next]_vars

\* ------------------------------------------- the selector on its own
SelectInit ==
  /\ handler \in Handlers
  /\ selFeed \in FeedResponses(handler)
  /\ selDraw \in Draws
  /\ selResult = [ok |-> FALSE, value |-> NoArticle, logged |-> "", error |-> ""]
  /\ selDone = FALSE
  /\ peer = handler
  /\ mock = NoMock
  /\ PipeInit

SelectArticle ==
  /\ ~selDone
  /\ selResult' = fetchArticleDetails(handler, selFeed, selDraw)
  /\ selDone' = TRUE
  /\ UNCHANGED <<selFeed, selDraw, pipeVars, envVars>>

SpecSelect == SelectInit /\ [][SelectArticle]_vars

\* ===================================================================
\* Properties
\* ===================================================================
Issued(r, name) == \E i \in 1..Len(calls[r]) : calls[r][i] = name
InFlightOf(r) == {c \in {"feed", "page", "llm", "tts", "open", "write", "quiz"} :
                    <<r, c>> \in inflight}
Responded(r) == response[r] # NoResponse
AllCalls == <<"feed", "page", "llm", "tts", "open", "write", "quiz">>

\* C1: in every run the stages start in the order select, summarize,
\* synthesize, quiz; a call of a stage is issued only when every earlier
\* stage of the run has returned a value; and a run never has two
\* operations in flight.
C1_StagesInSequence ==
  \A r \in Runs :
    /\ calls[r] # <<>> => calls[r][1] = "feed"
    /\ \A i \in 1..Len(calls[r]) :
         /\ StageOf(calls[r][i]) <= Len(completed[r]) + 1
         /\ i > 1 => /\ StageOf(calls[r][i - 1]) <= StageOf(calls[r][i])
                     /\ StageOf(calls[r][i]) <= StageOf(calls[r][i - 1]) + 1
    /\ completed[r] = SubSeq(Stages, 1, Len(completed[r]))
    /\ Cardinality(InFlightOf(r)) <= 1

\* A run went through all four stages while the other run is in mid-flight.
C1_Witness ==
  \E r, q \in Runs :
    /\ r # q
    /\ completed[r] = Stages
    /\ calls[r] = AllCalls
    /\ InFlightOf(q) = {"llm"}

\* The message each stage function throws with.
StageMessage(h, stage) ==
  CASE stage = "select" -> "Failed to fetch valid article details."
    [] stage = "summarize" -> "Failed to summarize article."
    [] stage = "synthesize" ->
         (IF h = "server" THEN "Failed to convert summary to speech using Eleven Labs."
          ELSE "Failed to convert summary to speech.")
    [] stage = "quiz" -> "Failed to generate quiz questions."
    [] OTHER -> ""

StageIndex(stage) == CHOOSE i \in 1..4 : Stages[i] = stage

\* C2: once a stage of a run has failed, nothing of the run is in flight, no
\* call of a later stage was issued, no call was issued twice, and the run
\* has answered 500 with the message of the stage that failed.
C2_AbortOnFirstFailure ==
  \A r \in Runs :
    /\ \A i, j \in 1..Len(calls[r]) : calls[r][i] = calls[r][j] => i = j
    /\ failed[r] # "" =>
         /\ InFlightOf(r) = {}
         /\ \A i \in 1..Len(calls[r]) :
              StageOf(calls[r][i]) <= StageIndex(failed[r])
         /\ Len(completed[r]) = StageIndex(failed[r]) - 1
         /\ response[r].status = 500
         /\ ErrorMessage(response[r]) = StageMessage(handler, failed[r])

\* A run failed in the summarize stage after its first stage succeeded.
C2_Witness ==
  \E r \in Runs :
    /\ failed[r] = "summarize"
    /\ calls[r] = <<"feed", "page", "llm">>
    /\ response[r].status = 500

ResultFields ==
  {"articleUrl", "headline", "description", "summary", "audioFile", "quizQuestions"}

\* C3: a run answers 200 exactly when all four stages returned, and the body
\* then holds the six result fields with the values of this run; otherwise it
\* answers 500 with a body that holds the error message and nothing else.
C3_AllOrNothing ==
  \A r \in Runs :
    Responded(r) =>
      /\ response[r].status \in {200, 500}
      /\ response[r].status = 200 <=> completed[r] = Stages
      /\ response[r].status = 200 =>
           /\ DOMAIN response[r].body = ResultFields
           /\ response[r].body.articleUrl = articleDetails[r].url
           /\ response[r].body.headline = articleDetails[r].headline
           /\ response[r].body.description = articleDetails[r].description
           /\ response[r].body.summary = summary[r]
           /\ response[r].body.audioFile = "output.mp3"
           /\ response[r].body.quizQuestions = quizQuestions[r]
           /\ failed[r] = ""
      /\ response[r].status = 500 =>
           /\ failed[r] # ""
           /\ DOMAIN response[r].body \in {{"error"}, {"text"}}
           /\ ErrorMessage(response[r]) = StageMessage(handler, failed[r])

\* One run answered 200 and the other answered 500 after its quiz call
\* failed, when summary and audio had already been produced.
C3_Witness ==
  \E r, q \in Runs :
    /\ response[r].status = 200
    /\ response[q].status = 500
    /\ failed[q] = "quiz"
    /\ completed[q] = <<"select", "summarize", "synthesize">>

TtsCallFailed(r) ==
  /\ failed[r] = "synthesize"
  /\ calls[r][Len(calls[r])] = "tts"

\* C4 as stated: a failed text-to-speech call gives a 500 response with the
\* message "Failed to convert summary to speech." and no quiz call.
C4_Original ==
  \A r \in Runs :
    TtsCallFailed(r) =>
      /\ response[r].status = 500
      /\ ErrorMessage(response[r]) = "Failed to convert summary to speech."
      /\ ~Issued(r, "quiz")

\* C4: a failed text-to-speech call gives a 500 response with the message of
\* the synthesize stage, which is "Failed to convert summary to speech." in
\* the api handlers and "Failed to convert summary to speech using Eleven
\* Labs." in server.js, and no quiz call is made in that run.
C4_SpeechFailure ==
  \A r \in Runs :
    TtsCallFailed(r) =>
      /\ response[r].status = 500
      /\ ErrorMessage(response[r]) =
           (IF handler = "server"
              THEN "Failed to convert summary to speech using Eleven Labs."
              ELSE "Failed to convert summary to speech.")
      /\ ~Issued(r, "quiz")
      /\ InFlightOf(r) = {}

\* The text-to-speech call of a run of server.js failed.
C4_Witness ==
  \E r \in Runs :
    /\ TtsCallFailed(r)
    /\ handler = "server"
    /\ Responded(r)

\* ------------------------------------------------------------ selector
\* The positions of the feed's articles that pass the filter.
Candidates(articles) ==
  {i \in 1..Len(articles) :
     /\ articles[i].url # <<>>
     /\ Includes(articles[i].url, <<"theverge.com">>)
     /\ articles[i].url # <<"https://", "www.", "theverge.com">>}

DetailsOf(article) ==
  [url |-> article.url, headline |-> article.title, description |-> article.description]

\* C5: for a feed with at least one valid candidate and any draw, the index
\* drawn lies within the filtered list and the selector returns one of the
\* candidates, so the url contains the domain and is not the homepage; with a
\* single candidate that candidate is returned.
C5_SelectedIsCandidate ==
  LET articles == selFeed.data.articles
      cand == Candidates(articles)
  IN (selDone /\ selFeed.kind = "ok" /\ cand # {}) =>
       /\ RandomIndex(selDraw, Cardinality(cand)) \in 0..(Cardinality(cand) - 1)
       /\ selResult.ok
       /\ \E i \in cand : selResult.value = DetailsOf(articles[i])
       /\ Includes(selResult.value.url, <<"theverge.com">>)
       /\ selResult.value.url # <<"https://", "www.", "theverge.com">>
       /\ Cardinality(cand) = 1 =>
            \A i \in cand : selResult.value = DetailsOf(articles[i])

\* The feed holds the homepage and one valid article, the draw is the
\* largest possible, and the valid article was returned.
C5_Witness ==
  /\ selDone
  /\ selFeed.kind = "ok"
  /\ Len(selFeed.data.articles) = 2
  /\ selFeed.data.articles[1].url = Homepage
  /\ Cardinality(Candidates(selFeed.data.articles)) = 1
  /\ selDraw = RandDenom - 1
  /\ selResult.ok
  /\ selResult.value = DetailsOf(selFeed.data.articles[2])

AllHomepage(articles) ==
  /\ Len(articles) > 0
  /\ \A i \in 1..Len(articles) : articles[i].url = Homepage

\* C6 as stated: for a non-empty feed whose urls are all the homepage, the
\* error that leaves fetchArticleDetails says that no valid article was left.
C6_Original ==
  (selDone /\ selFeed.kind = "ok" /\ AllHomepage(selFeed.data.articles)) =>
    /\ ~selResult.ok
    /\ selResult.error = "No valid articles found."

HomepageOnlyFeed ==
  [kind |-> "ok",
   data |-> [articles |-> <<[url |-> Homepage, title |-> "Home", description |-> "null"]>>]]

\* C7 as stated: for a feed with zero items, the error that leaves
\* fetchArticleDetails says that the feed was empty, and it differs from the
\* error for a feed whose items are all filtered out.
C7_Original ==
  (selDone /\ selFeed.kind = "ok" /\ selFeed.data.articles = <<>>) =>
    /\ ~selResult.ok
    /\ selResult.error = "No articles found from NewsAPI."
    /\ selResult.error # fetchArticleDetails(handler, HomepageOnlyFeed, selDraw).error

\* ---------------------------------------------------------- summarizer
PageFetchFailed(r) == failed[r] = "summarize" /\ calls[r][Len(calls[r])] = "page"
LlmCallFailed(r) == failed[r] = "summarize" /\ calls[r][Len(calls[r])] = "llm"

\* C8 as stated: when the page fetch fails no language-model call is made,
\* and the failure differs from the failure of a language-model call.
C8_Original ==
  \A r \in Runs :
    PageFetchFailed(r) =>
      /\ ~Issued(r, "llm")
      /\ response[r].status = 500
      /\ \A q \in Runs :
           LlmCallFailed(q) => ErrorMessage(response[q]) # ErrorMessage(response[r])

\* C9 as stated: an empty or whitespace-only generated text is never
\* returned as the summary: the text handed to the synthesize and quiz
\* stages, and the summary of a 200 response, are not empty.
C9_Original ==
  \A r \in Runs :
    /\ (InFlightOf(r) \cap {"tts", "open", "write", "quiz"} # {}) => summary[r] # <<>>
    /\ response[r].status = 200 => response[r].body.summary # <<>>

\* ------------------------------------------------------ the audio file
IsPrefix(a, b) == Len(a) <= Len(b) /\ SubSeq(b, 1, Len(a)) = a

\* C10 as stated: once both runs have answered, the file holds the audio of
\* whichever run wrote last.
C10_Original ==
  ((\A r \in Runs : Responded(r)) /\ lastOp.op = "write") => file = lastOp.data

\* C10: every 200 response names output.mp3; after a write the file begins
\* with the whole audio of the run that wrote last, and is exactly that audio
\* when no other run's file operation came between that run's open and its
\* write; after an open the file is empty.
C10_LastWriterWins ==
  /\ \A r \in Runs : response[r].status = 200 => response[r].body.audioFile = "output.mp3"
  /\ lastOp.op = "write" =>
       /\ IsPrefix(lastOp.data, file)
       /\ ~lastOp.overlapped => file = lastOp.data
  /\ lastOp.op = "open" => file = <<>>

\* A run has answered 200 with audioFile output.mp3 while the file holds the
\* audio synthesized from the other run's summary.
C10_Witness ==
  \E r, q \in Runs :
    /\ r # q
    /\ response[r].status = 200
    /\ response[r].body.audioFile = "output.mp3"
    /\ lastOp = [by |-> q, op |-> "write", data |-> file, overlapped |-> FALSE]
    /\ file # <<>>
    /\ \A i \in 1..Len(file) :
         file[i] = summary[q] /\ file[i] # response[r].body.summary

\* ------------------------------------------------- failure of the quiz
\* C13: in the step in which the quiz stage of a run fails, the run answers
\* 500 with a body that holds the message alone (no summary, no audio
\* reference), synthesize had written the file, and the file is left as it
\* is: not deleted, not restored.
C13_NoCompensation ==
  [][\A r \in Runs :
       (failed[r] = "" /\ failed'[r] = "quiz") =>
         /\ completed[r] = <<"select", "summarize", "synthesize">>
         /\ audioFile[r] = "output.mp3"
         /\ response'[r].status = 500
         /\ DOMAIN response'[r].body \in {{"error"}, {"text"}}
         /\ ErrorMessage(response'[r]) = "Failed to generate quiz questions."
         /\ file' = file
         /\ lastOp' = lastOp]_vars

\* The quiz of a run failed and the file still holds the audio that run
\* wrote.
C13_Witness ==
  \E r \in Runs :
    /\ failed[r] = "quiz"
    /\ response[r].status = 500
    /\ lastOp.by = r
    /\ lastOp.op = "write"
    /\ file = lastOp.data
    /\ file # InitialFile

\* --------------------------------------------------- host of the url
\* The host of a url: what lies between the scheme and the first "/".
RECURSIVE UpToSlash(_)
UpToSlash(s) ==
  IF s = <<>> \/ Head(s) = "/" THEN <<>> ELSE <<Head(s)>> \o UpToSlash(Tail(s))

HostOf(url) == IF url = <<>> THEN <<>> ELSE UpToSlash(Tail(url))

\* C14 as stated: the url of every article the selector returns has the
\* publication's domain as its host and is not the homepage.
C14_Original ==
  (selDone /\ selResult.ok) =>
    /\ HostOf(selResult.value.url) \in {<<"www.", "theverge.com">>, <<"theverge.com">>}
    /\ selResult.value.url # <<"https://", "www.", "theverge.com">>

\* ------------------------------------------------------ no blocking
\* C15: the step a run is waiting for can always be taken, whatever the
\* other run is doing: a request that has not arrived can be accepted, and
\* every awaited operation can complete.
C15_NoBlocking ==
  \A r \in Runs :
    /\ calls[r] = <<>> => ENABLED Request(r)
    /\ <<r, "feed">> \in inflight => ENABLED FeedResponds(r)
    /\ <<r, "page">> \in inflight => ENABLED PageResponds(r)
    /\ <<r, "llm">> \in inflight => ENABLED LlmResponds(r)
    /\ <<r, "tts">> \in inflight => ENABLED TtsResponds(r)
    /\ <<r, "open">> \in inflight => ENABLED OpenCompletes(r)
    /\ <<r, "write">> \in inflight => ENABLED WriteCompletes(r)
    /\ <<r, "quiz">> \in inflight => ENABLED QuizResponds(r)

\* While one run is suspended between its open and its write, the other run
\* wrote the file after that open and went on to answer 200.
C15_Witness ==
  \E r, q \in Runs :
    /\ r # q
    /\ <<r, "write">> \in inflight
    /\ lastOp.by = q
    /\ lastOp.op = "write"
    /\ response[q].status = 200

\* ------------------------------------------------ one message per stage
\* C16: two failed runs carry the same message exactly when they failed in
\* the same stage, whatever the cause, and the message is the fixed message
\* of that stage.
C16_MessagePerStage ==
  \A r, q \in Runs :
    (failed[r] # "" /\ failed[q] # "") =>
      /\ (failed[r] = failed[q]) <=> (ErrorMessage(response[r]) = ErrorMessage(response[q]))
      /\ ErrorMessage(response[r]) = StageMessage(handler, failed[r])

\* Two runs failed in the select stage, one for a provider error and one
\* because no article was valid, and carry the same message.
C16_Witness ==
  \E r, q \in Runs :
    /\ failed[r] = "select"
    /\ failed[q] = "select"
    /\ logged[r] = "Request failed with status code 500"
    /\ logged[q] = "No valid articles found."
    /\ ErrorMessage(response[r]) = ErrorMessage(response[q])

\* -------------------------------------------- what changes the file
\* C18: the file changes only in the open or the write of a run whose
\* text-to-speech call returned audio for its summary, and a run that failed
\* in select, in summarize or in the text-to-speech call never opened it.
C18_FileFrame ==
  [][/\ file' # file =>
          \E r \in Runs :
            /\ InFlightOf(r) \in {{"open"}, {"write"}}
            /\ InFlightOf(r) # {c \in {"open", "write"} : <<r, c>> \in inflight'}
            /\ SubSeq(calls[r], 1, 4) = <<"feed", "page", "llm", "tts">>
            /\ Len(audio[r]) > 0
            /\ audio[r] = Audio(summary[r], Len(audio[r]))
            /\ file' \in {<<>>, WriteAt0(file, audio[r])}
     /\ \A r \in Runs :
          (failed'[r] \in {"select", "summarize"} \/
             (failed'[r] = "synthesize" /\ calls'[r][Len(calls'[r])] = "tts")) =>
            /\ ~(\E i \in 1..Len(calls'[r]) : calls'[r][i] \in {"open", "write"})
            /\ (failed[r] = "" => file' = file)]_vars

\* One run failed in its text-to-speech call, the other in summarize, and
\* the file is as it was.
C18_Witness ==
  \E r, q \in Runs :
    /\ TtsCallFailed(r)
    /\ failed[q] = "summarize"
    /\ file = InitialFile
    /\ lastOp = NoOp

\* -------------------------------------------------- exactly one response
\* C19: a response once sent is never replaced, and a run has answered
\* (200 or 500) exactly when it was started and awaits nothing more.
C19_ExactlyOneResponse ==
  [][\A r \in Runs :
       /\ Responded(r) => response'[r] = response[r]
       /\ Responded(r) => InFlightOf(r) = {}
       /\ (calls'[r] # <<>> /\ {c \in {"feed", "page", "llm", "tts", "open", "write", "quiz"} :
                                 <<r, c>> \in inflight'} = {})
            <=> response'[r] # NoResponse
       /\ response'[r].status \in {0, 200, 500}]_vars

\* One run has answered 200 and the other 500.
C19_Witness ==
  \E r, q \in Runs :
    /\ response[r].status = 200
    /\ response[q].status = 500
    /\ InFlightOf(r) = {}
    /\ InFlightOf(q) = {}

\* ------------------------------------------------------- termination
\* C11 as stated: every run that was started eventually sends its response,
\* whether or not the providers answer.
C11_Original == \A r \in Runs : (calls[r] # <<>>) ~> (response[r] # NoResponse)

\* ------------------------------------------------------- determinism
\* The content of output.mp3 that the stubbed answers determine: untouched
\* if no open succeeded, empty if the write failed, else the audio.
ExpectedFile ==
  IF mock["open"] = <<>> \/ ~mock["open"][1] THEN InitialFile
  ELSE IF mock["write"] = <<>> \/ ~mock["write"][1] THEN <<>>
  ELSE mock["tts"][1].data

\* C12: two runs of one version that get the same provider answers and the
\* same random draw send the same response after the same calls, and once
\* both have answered output.mp3 holds what those answers determine, however
\* the two runs were interleaved.
C12_Deterministic ==
  (peer = handler /\ \A r \in Runs : Responded(r)) =>
    /\ response["r1"] = response["r2"]
    /\ calls["r1"] = calls["r2"]
    /\ completed["r1"] = completed["r2"]
    /\ failed["r1"] = failed["r2"]
    /\ logged["r1"] = logged["r2"]
    /\ file = ExpectedFile

\* Both runs of one version answered 200 on the same stubbed answers, their
\* writes of the file having overlapped.
C12_Witness ==
  /\ peer = handler
  /\ response["r1"].status = 200
  /\ response["r2"] = response["r1"]
  /\ lastOp.overlapped
  /\ file = mock["tts"][1].data

\* ------------------------------------------------- empty article text
\* C17: when the page was fetched, the model is called with whatever text
\* was extracted, the empty text included, and the only failures of that
\* step are those of the page request; when the model then answers, the run
\* goes on to the text-to-speech call with the model's summary, whatever
\* the text was.
C17_EmptyArticle ==
  [][\A r \in Runs :
       /\ (<<r, "page">> \in inflight /\ <<r, "page">> \notin inflight') =>
            IF failed'[r] = ""
              THEN /\ <<r, "llm">> \in inflight'
                   /\ calls'[r] = <<"feed", "page", "llm">>
                   /\ articleText'[r] \in {ArticleText(p) : p \in Pages}
              ELSE logged'[r] \in {"Request failed with status code 500",
                                   "timeout of 8000ms exceeded"}
       /\ (<<r, "llm">> \in inflight /\ <<r, "llm">> \notin inflight') =>
            IF failed'[r] = ""
              THEN /\ <<r, "tts">> \in inflight'
                   /\ completed'[r] = <<"select", "summarize">>
                   /\ summary'[r] \in {Trim(c) : c \in SummaryContents}
                   /\ articleText'[r] = articleText[r]
              ELSE /\ failed'[r] = "summarize"
                   /\ logged'[r] \in {"Request failed with status code 500",
                                      "Cannot read properties of undefined"}]_vars

\* A run whose article had no paragraph text went through all four stages
\* and answered 200 with a summary.
C17_Witness ==
  \E r \in Runs :
    /\ articleText[r] = <<>>
    /\ calls[r] = AllCalls
    /\ response[r].status = 200
    /\ response[r].body.summary # <<>>

\* ------------------------------------------------- the two entry points
\* C20 as stated: on the same provider answers the api handler (run r1) and
\* src/server.js (run r2) issue the same calls and send the same status and
\* the same content: the result fields, or the error message.
C20_Original ==
  (handler = "api" /\ peer = "server" /\ \A r \in Runs : Responded(r)) =>
    /\ calls["r1"] = calls["r2"]
    /\ response["r1"].status = response["r2"].status
    /\ response["r1"].status = 200 => response["r1"].body = response["r2"].body
    /\ response["r1"].status = 500 =>
         ErrorMessage(response["r1"]) = ErrorMessage(response["r2"])

\* C20, amended: when both have answered, the calls, the stages completed,
\* the status and a 200 body are the same; a 500 carries the same message
\* except for a failure of synthesize, where each sends its own text; and the
\* api handler sends the message as JSON, src/server.js as plain text.
C20_EquivalentButForText ==
  (handler = "api" /\ peer = "server" /\ \A r \in Runs : Responded(r)) =>
    /\ calls["r1"] = calls["r2"]
    /\ completed["r1"] = completed["r2"]
    /\ failed["r1"] = failed["r2"]
    /\ response["r1"].status = response["r2"].status
    /\ response["r1"].status = 200 => response["r1"] = response["r2"]
    /\ response["r1"].status = 500 =>
         /\ response["r1"].format = "json"
         /\ response["r2"].format = "text"
         /\ IF failed["r1"] = "synthesize"
              THEN /\ ErrorMessage(response["r1"]) = "Failed to convert summary to speech."
                   /\ ErrorMessage(response["r2"]) =
                        "Failed to convert summary to speech using Eleven Labs."
              ELSE ErrorMessage(response["r1"]) = ErrorMessage(response["r2"])

\* On an empty feed the api handler finds no valid article and src/server.js
\* finds no article at all, and both send the same 500.
C20_Witness ==
  /\ handler = "api"
  /\ peer = "server"
  /\ failed["r1"] = "select"
  /\ failed["r2"] = "select"
  /\ logged["r1"] = "No valid articles found."
  /\ logged["r2"] = "No articles found from NewsAPI."
  /\ response["r1"].status = 500
  /\ ErrorMessage(response["r1"]) = ErrorMessage(response["r2"])

====
